---- MODULE Spec2Model ----
(***************************************************************************)
(* Stage 1 dataset curation (src/src/build_stage1.py, main).               *)
(*                                                                         *)
(* The job reads a reviews parquet and a metadata parquet, derives         *)
(* review_date / launch_date / day_from_launch per review, aggregates one  *)
(* product_index row per parent_asin, applies the keep rule, and writes    *)
(* three parquet outputs one after the other.                              *)
(*                                                                         *)
(* Spark DataFrames are lazy: a DataFrame is a function of the input       *)
(* files (and of the collected scalar dataset_end).  The DataFrames are    *)
(* therefore operators over the state; the state holds the input data,     *)
(* the scalar collected at line 106, the QC counters that the job prints   *)
(* and the contents of the output directory.                               *)
(*                                                                         *)
(* A DataFrame with duplicate rows is a bag: a function from its distinct  *)
(* rows to their positive multiplicities.  A nullable column value is      *)
(* <<>> (SQL NULL) or <<v>>.                                                *)
(*                                                                         *)
(* The raw timestamp is a 64-bit integer.  It is held as the pair          *)
(* [hi, lo] that stands for hi * Divisor + lo with 0 <= lo < Divisor, so    *)
(* that every number the model computes stays within 32 bits.  The session *)
(* time zone is taken to be UTC.                                           *)
(***************************************************************************)
EXTENDS Integers, Sequences, FiniteSets, TLC

VARIABLES pc, df_reviews_raw, df_meta_raw, dataset_end,
          total_parents, kept_parents, dup_check,
          out_reviews, out_index, out_meta

vars == <<pc, df_reviews_raw, df_meta_raw, dataset_end,
          total_parents, kept_parents, dup_check,
          out_reviews, out_index, out_meta>>

(***************************************************************************)
(* Bounds of the model.                                                    *)
(***************************************************************************)
MaxEvents == 4

Products == {"A", "B"}

MetaIds == {"A", "Z"}

(***************************************************************************)
(* Constants of the program.                                               *)
(***************************************************************************)
Divisor == 1000000000

SignalWindowLast == 27

OutcomeWindowFirst == 28

OutcomeWindowLast == 55

ObservabilityDays == 55

EligibleMinReviews == 3

SecondsPerDay == 24 * 60 * 60

MsPerDay == SecondsPerDay * 1000

(***************************************************************************)
(* Nullable values.                                                        *)
(***************************************************************************)
Null == <<>>

Some(v) == <<v>>

IsNull(x) == x = Null

Val(x) == x[1]

(***************************************************************************)
(* Bags of rows.                                                           *)
(***************************************************************************)
EmptyRows == <<>>

AddRow(b, r) ==
    IF r \in DOMAIN b THEN [b EXCEPT ![r] = @ + 1] ELSE b @@ (r :> 1)

RECURSIVE SumCounts(_, _)
SumCounts(b, S) ==
    IF S = {} THEN 0
    ELSE LET r == CHOOSE x \in S : TRUE
         IN  b[r] + SumCounts(b, S \ {r})

RECURSIVE BagsUpTo(_, _)
BagsUpTo(n, Types) ==
    IF n = 0 THEN {EmptyRows}
    ELSE LET prev == BagsUpTo(n - 1, Types)
         IN  prev \cup {AddRow(b, r) : b \in prev, r \in Types}

(***************************************************************************)
(* Timestamps of the input.  Ts(hi, lo) is the raw value                   *)
(* hi * Divisor + lo; Day(d, s) is the raw value whose quotient by Divisor *)
(* is second s of day d after the epoch.                                   *)
(*                                                                         *)
(* The values straddle the epoch.  Two lie on the day before it: its       *)
(* midnight, and 86,400,000 raw units later, which the division turns into *)
(* one second past that midnight.  The others lie 27, 28, 55 and 56        *)
(* calendar days after that day, at noon or at midnight.                   *)
(***************************************************************************)
Ts(hi, lo) == [hi |-> hi, lo |-> lo]

Day(d, s) == Ts(d * SecondsPerDay + s, 0)

Noon == 12 * 60 * 60

TsValues ==
    { Day(-1, 0), Ts(-SecondsPerDay, MsPerDay),
      Day(26, Noon), Day(27, 0),
      Day(54, Noon), Day(55, 0) }

ValidatedEvents ==
    [parent_asin : Products, timestamp : {Some(t) : t \in TsValues}]

(***************************************************************************)
(* Stage 2: time anchor and launch date (lines 63-84).                     *)
(***************************************************************************)
\* F.col("timestamp") / 1_000_000_000, then the cast of the double to the
\* long that from_unixtime takes: the quotient, truncated towards zero.
DivideTruncate(t) ==
    IF t.hi < 0 /\ t.lo # 0 THEN t.hi + 1 ELSE t.hi

\* review_date, in seconds since the epoch; NULL for a NULL timestamp.
ReviewDate(timestamp) ==
    IF IsNull(timestamp) THEN Null ELSE Some(DivideTruncate(Val(timestamp)))

\* min / max aggregate of a nullable column: NULLs are skipped, and the
\* result is NULL when nothing is left.
MinAgg(values) ==
    LET present == {Val(v) : v \in {x \in values : ~IsNull(x)}}
    IN  IF present = {} THEN Null
        ELSE Some(CHOOSE m \in present : \A x \in present : m <= x)

MaxAgg(values) ==
    LET present == {Val(v) : v \in {x \in values : ~IsNull(x)}}
    IN  IF present = {} THEN Null
        ELSE Some(CHOOSE m \in present : \A x \in present : m >= x)

\* The calendar date of a timestamp, as a day number.
ToDate(seconds) == seconds \div SecondsPerDay

\* F.datediff(end, start)
DateDiff(end, start) ==
    IF IsNull(end) \/ IsNull(start) THEN Null
    ELSE Some(ToDate(Val(end)) - ToDate(Val(start)))

\* Mutant: the window is not partitioned, so the minimum is the global one.
WindowParent_Unpartitioned(raw, p) == DOMAIN raw

\* Window.partitionBy("parent_asin")
WindowParent(raw, p) == {e \in DOMAIN raw : e.parent_asin = p}

\* F.min("review_date").over(window_parent)
LaunchDate(raw, p) ==
    MinAgg({ReviewDate(e.timestamp) : e \in WindowParent(raw, p)})

\* Mutant: the signal window runs through day 28.
IsDay0To27_Through28(dfl) ==
    IF ~IsNull(dfl) /\ Val(dfl) >= 0 /\ Val(dfl) <= 28 THEN 1 ELSE 0

\* F.when(c1 & c2, 1).otherwise(0): a NULL condition takes the otherwise.
IsDay0To27(dfl) ==
    IF ~IsNull(dfl) /\ Val(dfl) >= 0 /\ Val(dfl) <= SignalWindowLast
    THEN 1 ELSE 0

IsFuture28To55(dfl) ==
    IF ~IsNull(dfl) /\ Val(dfl) >= OutcomeWindowFirst
                    /\ Val(dfl) <= OutcomeWindowLast
    THEN 1 ELSE 0

\* One row of df_reviews after lines 68-140.
ReviewRow(raw, e) ==
    LET rd == ReviewDate(e.timestamp)
        ld == LaunchDate(raw, e.parent_asin)
        dfl == DateDiff(rd, ld)
    IN  [parent_asin |-> e.parent_asin,
         timestamp |-> e.timestamp,
         review_date |-> rd,
         launch_date |-> ld,
         day_from_launch |-> dfl,
         is_day_0_27 |-> IsDay0To27(dfl),
         is_future_28_55 |-> IsFuture28To55(dfl)]

RawOf(r) == [parent_asin |-> r.parent_asin, timestamp |-> r.timestamp]

DfReviews(raw) ==
    [r \in {ReviewRow(raw, e) : e \in DOMAIN raw} |-> raw[RawOf(r)]]

(***************************************************************************)
(* Stage 4: the dataset horizon (lines 106, 117).                          *)
(***************************************************************************)
\* df_reviews.agg(F.max("review_date")).collect()[0][0]
MaxReviewDate(raw) == MaxAgg({r.review_date : r \in DOMAIN DfReviews(raw)})

\* F.date_sub(F.lit(dataset_end), 55): a DATE, the calendar date of
\* dataset_end less 55 days; its time of day is dropped.
CutoffDate(end) ==
    IF IsNull(end) THEN Null ELSE Some(ToDate(Val(end)) - ObservabilityDays)

\* F.col("launch_date") <= cutoff_date: the DATE is cast to the timestamp of
\* its midnight; NULL when either side is NULL.
LaunchAtOrBeforeCutoff(launch, cutoff) ==
    IF IsNull(launch) \/ IsNull(cutoff) THEN Null
    ELSE Some(Val(launch) <= Val(cutoff) * SecondsPerDay)

(***************************************************************************)
(* Stages 3, 5, 6: the product index (lines 146-195).  The first           *)
(* aggregation, df_product_stats of lines 110-128, is read by nothing and  *)
(* is never evaluated; df_product_agg of line 146 is the one that counts.  *)
(***************************************************************************)
\* df_reviews.groupBy("parent_asin"): the distinct keys, and a key's rows.
GroupKeys(rows) == {r.parent_asin : r \in DOMAIN rows}

GroupRows(rows, p) == {r \in DOMAIN rows : r.parent_asin = p}

\* F.sum of a 0/1 column over the rows S of the bag.
RECURSIVE SumDay0To27(_, _)
SumDay0To27(rows, S) ==
    IF S = {} THEN 0
    ELSE LET r == CHOOSE x \in S : TRUE
         IN  rows[r] * r.is_day_0_27 + SumDay0To27(rows, S \ {r})

RECURSIVE SumFuture28To55(_, _)
SumFuture28To55(rows, S) ==
    IF S = {} THEN 0
    ELSE LET r == CHOOSE x \in S : TRUE
         IN  rows[r] * r.is_future_28_55 + SumFuture28To55(rows, S \ {r})

\* Mutant: strictly more than the minimum is asked for.
Eligible_StrictlyMore(reviews_28d) == reviews_28d > EligibleMinReviews

Eligible(reviews_28d) == reviews_28d >= EligibleMinReviews

\* Mutant: the flag of a product that is not observable is 0, not NULL.
TractionFlag_ZeroOtherwise(observable, future) ==
    IF ~IsNull(observable) /\ Val(observable)
    THEN Some(IF future > 0 THEN 1 ELSE 0)
    ELSE Some(0)

\* F.when(observable, F.when(future > 0, 1).otherwise(0)).otherwise(None)
TractionFlag(observable, future) ==
    IF ~IsNull(observable) /\ Val(observable)
    THEN Some(IF future > 0 THEN 1 ELSE 0)
    ELSE Null

LowTractionFlag(observable, future) ==
    IF ~IsNull(observable) /\ Val(observable)
    THEN Some(IF future = 0 THEN 1 ELSE 0)
    ELSE Null

\* F.col("eligible") & F.col("observable_55d"): SQL three-valued AND of a
\* non-null boolean and a nullable one.
KeepProduct(eligible, observable) ==
    IF ~eligible THEN Some(FALSE)
    ELSE IF IsNull(observable) THEN Null
    ELSE Some(Val(observable))

\* F.year: the proleptic Gregorian year of a day number (days since
\* 1970-01-01).
YearOfDay(d) ==
    LET z == d + 719468
        era == z \div 146097
        doe == z - era * 146097
        yoe == (doe - doe \div 1460 + doe \div 36524 - doe \div 146096) \div 365
        doy == doe - (365 * yoe + yoe \div 4 - yoe \div 100)
        mp == (5 * doy + 2) \div 153
    IN  yoe + era * 400 + (IF mp < 10 THEN 0 ELSE 1)

LaunchYear(launch) ==
    IF IsNull(launch) THEN Null ELSE Some(YearOfDay(ToDate(Val(launch))))

\* The product_index row of one group.
ProductRow(rows, p, end) ==
    LET G == GroupRows(rows, p)
        launch == MinAgg({r.launch_date : r \in G})
        n28 == SumDay0To27(rows, G)
        f28 == SumFuture28To55(rows, G)
        obs == LaunchAtOrBeforeCutoff(launch, CutoffDate(end))
        elig == Eligible(n28)
    IN  [parent_asin |-> p,
         launch_date |-> launch,
         reviews_28d |-> n28,
         future_reviews_28d |-> f28,
         dataset_end |-> end,
         observable_55d |-> obs,
         eligible |-> elig,
         traction_flag |-> TractionFlag(obs, f28),
         low_traction_flag |-> LowTractionFlag(obs, f28),
         keep_product |-> KeepProduct(elig, obs),
         launch_year |-> LaunchYear(launch)]

\* Mutant: the index holds the kept products only.
ProductIndex_KeptOnly(raw, end) ==
    LET rows == DfReviews(raw)
    IN  {x \in {ProductRow(rows, p, end) : p \in GroupKeys(rows)} :
            x.keep_product = Some(TRUE)}

\* df_product_index: one row per group of df_reviews.
ProductIndex(raw, end) ==
    LET rows == DfReviews(raw)
    IN  {ProductRow(rows, p, end) : p \in GroupKeys(rows)}

\* Mutant: the filter reads eligible, not keep_product.
KeptProducts_EligibleOnly(index) ==
    {x.parent_asin : x \in {y \in index : y.eligible}}

\* df_product_index.filter(keep_product == True).select("parent_asin").distinct()
KeptProducts(index) ==
    {x.parent_asin : x \in {y \in index : y.keep_product = Some(TRUE)}}

(***************************************************************************)
(* Stages 6, 7: the filtered outputs (lines 204-237).                      *)
(***************************************************************************)
\* df_reviews_filtered.select(*final_cols)
FinalCols(r) ==
    [parent_asin |-> r.parent_asin,
     timestamp |-> r.timestamp,
     review_date |-> r.review_date,
     launch_date |-> r.launch_date,
     day_from_launch |-> r.day_from_launch]

\* df_reviews.join(df_kept_products, on="parent_asin", how="inner"), then
\* the projection.  The dropped columns are functions of day_from_launch,
\* so distinct rows stay distinct and keep their multiplicities.
ReviewsFiltered(raw, end) ==
    LET rows == DfReviews(raw)
        kept == KeptProducts(ProductIndex(raw, end))
        J == {r \in DOMAIN rows : r.parent_asin \in kept}
    IN  [f \in {FinalCols(r) : r \in J} |->
            rows[CHOOSE r \in J : FinalCols(r) = f]]

MetaColumns ==
    {"parent_asin", "title", "main_category", "average_rating", "price",
     "images", "videos", "bought_together", "categories"}

\* df_meta_raw.join(df_kept_products, on="parent_asin", how="inner"), then
\* the two drops.  A metadata row is known by its parent_asin.
MetaCleaned(meta, raw, end) ==
    [rows |-> meta \cap KeptProducts(ProductIndex(raw, end)),
     columns |-> (MetaColumns \ {"images", "videos", "bought_together"})
                    \ {"categories"}]

(***************************************************************************)
(* Stage 8: the quality checks (lines 250-264).                            *)
(***************************************************************************)
\* df_product_index.groupBy("parent_asin").count().filter("count > 1").count()
DuplicateKeys(index) ==
    Cardinality({p \in {x.parent_asin : x \in index} :
                    Cardinality({x \in index : x.parent_asin = p}) > 1})

(***************************************************************************)
(* The job.                                                                *)
(***************************************************************************)
\* df_product_index, once dataset_end has been collected.
df_product_index == ProductIndex(df_reviews_raw, dataset_end)

df_reviews == DfReviews(df_reviews_raw)

Collected == pc \notin {"load", "exit1", "horizon"}

Terminal == pc \in {"done", "exit1", "crashed"}

RawEvents ==
    ValidatedEvents \cup [parent_asin : Products, timestamp : {Null}]

InitWith(Events) ==
    /\ pc = "load"
    /\ df_reviews_raw \in BagsUpTo(MaxEvents, Events)
    /\ df_meta_raw \in SUBSET MetaIds
    /\ dataset_end = Null
    /\ total_parents = Null
    /\ kept_parents = Null
    /\ dup_check = Null
    /\ out_reviews = Null
    /\ out_index = Null
    /\ out_meta = Null

\* The reviews parquet as data_store.save_processed_parquet writes it: the
\* timestamp column is int64, so it holds no NULL.
Init == InitWith(ValidatedEvents)

\* Any reviews parquet that --reviews may name: the timestamp may be NULL.
InitRaw == InitWith(RawEvents)

LoadData ==
    /\ pc = "load"
    /\ pc' = "horizon"
    /\ UNCHANGED <<df_reviews_raw, df_meta_raw, dataset_end, total_parents,
                   kept_parents, dup_check, out_reviews, out_index, out_meta>>

LoadDataFails ==
    /\ pc = "load"
    /\ pc' = "exit1"
    /\ UNCHANGED <<df_reviews_raw, df_meta_raw, dataset_end, total_parents,
                   kept_parents, dup_check, out_reviews, out_index, out_meta>>

ResolveDatasetEnd ==
    /\ pc = "horizon"
    /\ dataset_end' = MaxReviewDate(df_reviews_raw)
    /\ pc' = "qc"
    /\ UNCHANGED <<df_reviews_raw, df_meta_raw, total_parents,
                   kept_parents, dup_check, out_reviews, out_index, out_meta>>

QualityChecks ==
    /\ pc = "qc"
    /\ total_parents' = Some(Cardinality(df_product_index))
    /\ kept_parents' =
          Some(Cardinality({x \in df_product_index : x.keep_product = Some(TRUE)}))
    /\ dup_check' = Some(DuplicateKeys(df_product_index))
    /\ pc' = "write_reviews"
    /\ UNCHANGED <<df_reviews_raw, df_meta_raw, dataset_end,
                   out_reviews, out_index, out_meta>>

WriteReviews ==
    /\ pc = "write_reviews"
    /\ out_reviews' = Some(ReviewsFiltered(df_reviews_raw, dataset_end))
    /\ pc' = "write_index"
    /\ UNCHANGED <<df_reviews_raw, df_meta_raw, dataset_end, total_parents,
                   kept_parents, dup_check, out_index, out_meta>>

WriteReviewsFails ==
    /\ pc = "write_reviews"
    /\ pc' = "crashed"
    /\ UNCHANGED <<df_reviews_raw, df_meta_raw, dataset_end, total_parents,
                   kept_parents, dup_check, out_reviews, out_index, out_meta>>

WriteIndex ==
    /\ pc = "write_index"
    /\ out_index' = Some(df_product_index)
    /\ pc' = "write_meta"
    /\ UNCHANGED <<df_reviews_raw, df_meta_raw, dataset_end, total_parents,
                   kept_parents, dup_check, out_reviews, out_meta>>

WriteIndexFails ==
    /\ pc = "write_index"
    /\ pc' = "crashed"
    /\ UNCHANGED <<df_reviews_raw, df_meta_raw, dataset_end, total_parents,
                   kept_parents, dup_check, out_reviews, out_index, out_meta>>

WriteMeta ==
    /\ pc = "write_meta"
    /\ out_meta' = Some(MetaCleaned(df_meta_raw, df_reviews_raw, dataset_end))
    /\ pc' = "stop"
    /\ UNCHANGED <<df_reviews_raw, df_meta_raw, dataset_end, total_parents,
                   kept_parents, dup_check, out_reviews, out_index>>

WriteMetaFails ==
    /\ pc = "write_meta"
    /\ pc' = "crashed"
    /\ UNCHANGED <<df_reviews_raw, df_meta_raw, dataset_end, total_parents,
                   kept_parents, dup_check, out_reviews, out_index, out_meta>>

Stop ==
    /\ pc = "stop"
    /\ pc' = "done"
    /\ UNCHANGED <<df_reviews_raw, df_meta_raw, dataset_end, total_parents,
                   kept_parents, dup_check, out_reviews, out_index, out_meta>>

Next ==
    \/ LoadData
    \/ LoadDataFails
    \/ ResolveDatasetEnd
    \/ QualityChecks
    \/ WriteReviews
    \/ WriteReviewsFails
    \/ WriteIndex
    \/ WriteIndexFails
    \/ WriteMeta
    \/ WriteMetaFails
    \/ Stop

Spec == Init /\ [][Next]_vars

SpecRaw == InitRaw /\ [][Next]_vars

(***************************************************************************)
(* What the claims speak of.                                               *)
(***************************************************************************)
\* The product ids of the input events.
InputProducts == {e.parent_asin : e \in DOMAIN df_reviews_raw}

\* {p : keep_product(p) = true} in product_index.
KeepSet == {x.parent_asin : x \in {y \in df_product_index :
                                      y.keep_product = <<TRUE>>}}

\* The rows of product p among the rows of df_reviews.
EventsOf(rows, p) == {r \in DOMAIN rows : r.parent_asin = p}

\* The number of events of p, duplicates counted, whose day_from_launch
\* lies in first..last.
EventsInWindow(rows, p, first, last) ==
    SumCounts(rows,
              {r \in EventsOf(rows, p) : /\ r.day_from_launch # <<>>
                                         /\ r.day_from_launch[1] >= first
                                         /\ r.day_from_launch[1] <= last})

Malformed(e) == e.timestamp = <<>> \/ e.timestamp[1].hi < 0

\* t plus ms, for 0 <= ms <= Divisor.
TsPlus(t, ms) ==
    [hi |-> t.hi + (t.lo + ms) \div Divisor, lo |-> (t.lo + ms) % Divisor]

(***************************************************************************)
(* C1                                                                      *)
(***************************************************************************)
\* C1 (as stated): once written, the product ids of reviews_filtered and
\* the product ids of meta_filtered are each exactly the set of products
\* whose keep_product is true, whatever the metadata holds.
C1_BothOutputsEqualKeepSet ==
    out_reviews # <<>> =>
        LET keep == KeepSet
        IN  /\ {r.parent_asin : r \in DOMAIN out_reviews[1]} = keep
            /\ out_meta # <<>> => out_meta[1].rows = keep

\* C1 (amended): the product ids of reviews_filtered are exactly the keep
\* set; the product ids of meta_filtered are exactly the products of the
\* keep set that have a metadata row, and so a subset of the keep set.
C1_ReviewsEqualMetaWithin ==
    out_reviews # <<>> =>
        LET keep == KeepSet
        IN  /\ {r.parent_asin : r \in DOMAIN out_reviews[1]} = keep
            /\ out_meta # <<>> =>
                  /\ out_meta[1].rows = keep \cap df_meta_raw
                  /\ out_meta[1].rows \subseteq keep

\* A finished run in which reviews_filtered holds rows, a kept product has
\* no metadata row, and a metadata row is of a product that is not kept.
C1_Witness ==
    /\ pc = "done"
    /\ {r.parent_asin : r \in DOMAIN out_reviews[1]} # {}
    /\ KeepSet \ df_meta_raw # {}
    /\ df_meta_raw \ KeepSet # {}

(***************************************************************************)
(* C2                                                                      *)
(***************************************************************************)
\* C2: for every product, observable_55d is true exactly when its
\* launch_date, a timestamp with its time of day, is at or before
\* dataset_end less 55 days; dataset_end is the latest review_date of all
\* events.
C2_ObservableIffLaunchWithin55Days ==
    Collected =>
        \A x \in df_product_index :
            /\ x.observable_55d # <<>>
            /\ x.observable_55d[1] <=>
                  x.launch_date[1] <= dataset_end[1] - 55 * SecondsPerDay

(***************************************************************************)
(* C3                                                                      *)
(***************************************************************************)
\* C3: reviews_28d is the number of the product's events with
\* 0 <= day_from_launch <= 27 and future_reviews_28d the number with
\* 28 <= day_from_launch <= 55, day_from_launch being the difference of the
\* calendar days of review_date and launch_date; an event at day 56 or
\* later is counted in neither and no event in both.
C3_WindowCounts ==
    Collected =>
        LET rows == df_reviews
        IN
        /\ \A x \in df_product_index :
              /\ x.reviews_28d = EventsInWindow(rows, x.parent_asin, 0, 27)
              /\ x.future_reviews_28d = EventsInWindow(rows, x.parent_asin, 28, 55)
              /\ x.reviews_28d + x.future_reviews_28d
                    = EventsInWindow(rows, x.parent_asin, 0, 55)
        /\ \A r \in DOMAIN rows :
              /\ r.day_from_launch[1] =
                    (r.review_date[1] \div 86400) - (r.launch_date[1] \div 86400)
              /\ r.is_day_0_27 + r.is_future_28_55 <= 1
              /\ r.day_from_launch[1] >= 56 =>
                    r.is_day_0_27 + r.is_future_28_55 = 0

\* A product with events on day 27 and day 28 or on day 55 and day 56 of
\* its life, and a count in each window.
C3_Witness ==
    /\ Collected
    /\ \E x \in df_product_index :
          /\ x.reviews_28d >= 2
          /\ x.future_reviews_28d >= 1
          /\ \E r \in EventsOf(df_reviews, x.parent_asin) :
                r.day_from_launch[1] >= 56
          /\ \E r \in EventsOf(df_reviews, x.parent_asin) :
                r.day_from_launch[1] \in {27, 28}

(***************************************************************************)
(* C4                                                                      *)
(***************************************************************************)
\* C4: launch_date is the earliest review_date of the product's events; the
\* same value is on every event of the product and on its product_index
\* row; no event is earlier than it, so day_from_launch >= 0 throughout.
C4_LaunchIsEarliestReview ==
    Collected =>
        LET rows == df_reviews
            index == df_product_index
        IN
        /\ \A r \in DOMAIN rows :
              /\ r.launch_date # <<>>
              /\ \E q \in EventsOf(rows, r.parent_asin) :
                    q.review_date = r.launch_date
              /\ \A q \in EventsOf(rows, r.parent_asin) :
                    /\ q.review_date[1] >= r.launch_date[1]
                    /\ q.launch_date = r.launch_date
              /\ r.day_from_launch[1] >= 0
              /\ \E x \in index : x.parent_asin = r.parent_asin
              /\ \A x \in index :
                    x.parent_asin = r.parent_asin => x.launch_date = r.launch_date

\* Two products launched on different days, one of them with a later event.
C4_Witness ==
    /\ Collected
    /\ \E x, y \in df_product_index :
          /\ x.launch_date[1] < y.launch_date[1]
          /\ \E r \in EventsOf(df_reviews, y.parent_asin) :
                r.day_from_launch[1] > 0
          /\ \E r \in EventsOf(df_reviews, x.parent_asin) :
                r.review_date[1] > y.launch_date[1]

(***************************************************************************)
(* C5                                                                      *)
(***************************************************************************)
\* C5: a product that is not observable has both traction flags NULL; an
\* observable product has both defined, exactly one of them 1, and
\* traction_flag is 1 exactly when future_reviews_28d > 0.
C5_TractionFlags ==
    Collected =>
        \A x \in df_product_index :
            /\ x.observable_55d = <<FALSE>> =>
                  x.traction_flag = <<>> /\ x.low_traction_flag = <<>>
            /\ x.observable_55d = <<TRUE>> =>
                  /\ x.traction_flag \in {<<0>>, <<1>>}
                  /\ x.low_traction_flag \in {<<0>>, <<1>>}
                  /\ x.traction_flag[1] + x.low_traction_flag[1] = 1
                  /\ x.traction_flag = <<1>> <=> x.future_reviews_28d > 0

\* An observable product with traction, one without, or one that is not
\* observable, side by side.
C5_Witness ==
    /\ Collected
    /\ \E x, y \in df_product_index :
          /\ x.observable_55d = <<TRUE>>
          /\ x.traction_flag = <<1>>
          /\ y.observable_55d = <<FALSE>>
          /\ y.traction_flag = <<>>

(***************************************************************************)
(* C6                                                                      *)
(***************************************************************************)
\* C6: eligible is true exactly when reviews_28d >= 3; keep_product is a
\* defined boolean, true exactly when eligible and observable_55d are both
\* true; so a product with fewer than 3 signal-window events is not kept.
C6_EligibleAndKeep ==
    Collected =>
        \A x \in df_product_index :
            /\ x.eligible <=> x.reviews_28d >= 3
            /\ x.keep_product \in {<<TRUE>>, <<FALSE>>}
            /\ x.keep_product[1] <=>
                  (x.eligible /\ x.observable_55d = <<TRUE>>)
            /\ x.reviews_28d < 3 => x.keep_product = <<FALSE>>

\* A kept product with exactly 3 signal-window events beside a product
\* with fewer.
C6_Witness ==
    /\ Collected
    /\ \E x, y \in df_product_index :
          /\ x.keep_product = <<TRUE>>
          /\ x.reviews_28d = 3
          /\ y.reviews_28d < 3
          /\ y.keep_product = <<FALSE>>

(***************************************************************************)
(* C7                                                                      *)
(***************************************************************************)
\* C7: when an input event has a NULL or negative timestamp the run fails:
\* it does not complete, the quality checks do not count a product index,
\* and nothing is written.
C7_MalformedTimestampFails ==
    (\E e \in DOMAIN df_reviews_raw : Malformed(e)) =>
        /\ pc # "done"
        /\ total_parents = <<>>
        /\ out_reviews = <<>> /\ out_index = <<>> /\ out_meta = <<>>

(***************************************************************************)
(* C8                                                                      *)
(***************************************************************************)
\* C8: in every terminal state either all three outputs are written or none
\* is.
C8_AllOrNothing ==
    Terminal =>
        \/ out_reviews # <<>> /\ out_index # <<>> /\ out_meta # <<>>
        \/ out_reviews = <<>> /\ out_index = <<>> /\ out_meta = <<>>

(***************************************************************************)
(* C9                                                                      *)
(***************************************************************************)
\* C9: product_index has exactly one row for every product id of the input
\* events, kept or not, and no other row; the QC step counts that many
\* products and 0 duplicate keys, and that index is what is written.
C9_OneRowPerProduct ==
    /\ Collected =>
          LET index == df_product_index
          IN  /\ \A p \in InputProducts :
                    Cardinality({x \in index : x.parent_asin = p}) = 1
              /\ \A x \in index : x.parent_asin \in InputProducts
    /\ dup_check # <<>> =>
          dup_check = <<0>> /\ total_parents = <<Cardinality(InputProducts)>>
    /\ out_index # <<>> =>
          {x.parent_asin : x \in out_index[1]} = InputProducts

\* A written index with a kept product and one that is not kept.
C9_Witness ==
    /\ out_index # <<>>
    /\ dup_check = <<0>>
    /\ \E x, y \in out_index[1] :
          x.keep_product = <<TRUE>> /\ y.keep_product = <<FALSE>>

(***************************************************************************)
(* C10                                                                     *)
(***************************************************************************)
\* C10: the timestamp is in milliseconds, so two events of one product
\* whose timestamps are k * 86,400,000 apart have day_from_launch values
\* that are k apart.
C10_MsDaysAreCalendarDays ==
    Collected =>
        \A r1, r2 \in DOMAIN df_reviews :
            \A k \in 0..(Divisor \div MsPerDay) :
                (/\ r1.parent_asin = r2.parent_asin
                 /\ r2.timestamp[1] = TsPlus(r1.timestamp[1], k * 86400000))
                => r2.day_from_launch[1] - r1.day_from_launch[1] = k

====
